---- MODULE Spec2Model ----
(***************************************************************************)
(* Model of the phenotypes crate: Fraction<u32> (src/src/model.rs), the    *)
(* Observable / ObservableFeatures traits (src/src/observation.rs) and     *)
(* SimplePhenotypicFeature (src/src/simple.rs).                            *)
(*                                                                         *)
(* A u32 is kept at its full width as two 16-bit limbs [hi, lo], so that   *)
(* comparison and addition behave exactly as on 32-bit unsigned integers.  *)
(***************************************************************************)
EXTENDS Integers, Sequences, FiniteSets, TLC

VARIABLES overflow_checks, regs, origin, adds, call, ret, panicked,
          features, iters, outs

vars == <<overflow_checks, regs, origin, adds, call, ret, panicked,
          features, iters, outs>>

fracVars == <<overflow_checks, regs, origin, adds, panicked>>
featVars == <<features, iters, outs>>

\* ------------------------------------------------------------------ bounds
MaxAdds == 2
MaxLen == 3

\* --------------------------------------------------------------------- u32
Limb == 65536

U32(h, l) == [hi |-> h, lo |-> l]
Zero == U32(0, 0)
One == U32(0, 1)
U32Max == U32(Limb - 1, Limb - 1)

\* u32 `<=`
Le(x, y) == x.hi < y.hi \/ (x.hi = y.hi /\ x.lo <= y.lo)
\* u32 `>`
Gt(x, y) == x.hi > y.hi \/ (x.hi = y.hi /\ x.lo > y.lo)
\* u32 `==`
U32Eq(x, y) == x.hi = y.hi /\ x.lo = y.lo

\* the mathematical sum of two u32, in three limbs (never truncated)
WideSum(x, y) ==
    LET l == x.lo + y.lo
        h == x.hi + y.hi + (l \div Limb)
    IN  [carry |-> h \div Limb, hi |-> h % Limb, lo |-> l % Limb]
Wide(x) == [carry |-> 0, hi |-> x.hi, lo |-> x.lo]

\* u32 `+`: with overflow checks the addition panics on overflow, without
\* them it wraps modulo 2^32.
U32Add(x, y, checks) ==
    LET w == WideSum(x, y)
    IN  IF w.carry > 0 /\ checks
        THEN [panic |-> TRUE, val |-> {}]
        ELSE [panic |-> FALSE, val |-> {U32(w.hi, w.lo)}]

\* ------------------------------------------------------------ Option, Result
None == {}
Some(x) == {x}
Unwrap(o) == CHOOSE x \in o : TRUE

\* ---------------------------------------------------------------- Fraction
Fraction(num, den) == [n |-> num, m |-> den]

NumeratorError == "Numerator must be less than or equal to denominator!"

n(self) == self.n
m(self) == self.m

\* bug: strict comparison, which rejects n = m
try_from_strict(value) ==
    LET numerator == value[1]
        denominator == value[2]
    IN  IF Gt(denominator, numerator)
        THEN [ok |-> Some(Fraction(numerator, denominator)), err |-> None]
        ELSE [ok |-> None, err |-> Some(NumeratorError)]

\* bug: no validation, every pair is accepted
try_from_unchecked(value) ==
    LET numerator == value[1]
        denominator == value[2]
    IN  [ok |-> Some(Fraction(numerator, denominator)), err |-> None]

try_from(value) ==
    LET numerator == value[1]
        denominator == value[2]
    IN  IF Le(numerator, denominator)
        THEN [ok |-> Some(Fraction(numerator, denominator)), err |-> None]
        ELSE [ok |-> None, err |-> Some(NumeratorError)]

add(self, rhs, checks) ==
    LET sn == U32Add(self.n, rhs.n, checks)
        sm == U32Add(self.m, rhs.m, checks)
    IN  IF sn.panic \/ sm.panic
        THEN [panic |-> TRUE, val |-> None]
        ELSE [panic |-> FALSE, val |-> Some(Fraction(Unwrap(sn.val), Unwrap(sm.val)))]

\* bug: equality of the numerators only
eq_numerators(self, other) == U32Eq(self.n, other.n)

\* #[derive(PartialEq, Eq)]: field by field
eq(self, other) == U32Eq(self.n, other.n) /\ U32Eq(self.m, other.m)

\* ------------------------------------------------- client of Fraction<u32>
\* Inputs handed to try_from: the smallest counts and the largest u32.
Vals == {Zero, One, U32Max}
Regs == {"a", "b"}

NoCall == [op |-> "none", reg |-> "", pair |-> None, lhs |-> None, rhs |-> None,
           idx |-> 0]
NoRet == [ok |-> None, err |-> None, num |-> None, bool |-> None, bool2 |-> None,
          cnt |-> None]

FractionInit ==
    /\ overflow_checks \in BOOLEAN
    /\ regs = [r \in Regs |-> None]
    /\ origin = [r \in Regs |-> None]
    /\ adds = 0
    /\ call = NoCall
    /\ ret = NoRet
    /\ panicked = FALSE

\* let r = Fraction::try_from((a, b))
TryFrom(r, a, b) ==
    /\ ~panicked
    /\ LET res == try_from(<<a, b>>)
       IN  /\ call' = [NoCall EXCEPT !.op = "try_from", !.reg = r,
                                     !.pair = Some(<<a, b>>)]
           /\ ret' = [NoRet EXCEPT !.ok = res.ok, !.err = res.err]
           /\ regs' = IF res.ok # None THEN [regs EXCEPT ![r] = res.ok] ELSE regs
           /\ origin' = IF res.ok # None
                        THEN [origin EXCEPT ![r] = Some(<<a, b>>)]
                        ELSE origin
    /\ UNCHANGED <<overflow_checks, adds, panicked, featVars>>

\* let r = a + b
Add(r) ==
    /\ ~panicked
    /\ adds < MaxAdds
    /\ regs["a"] # None /\ regs["b"] # None
    /\ LET res == add(Unwrap(regs["a"]), Unwrap(regs["b"]), overflow_checks)
       IN  /\ call' = [NoCall EXCEPT !.op = "add", !.reg = r,
                                     !.lhs = regs["a"], !.rhs = regs["b"]]
           /\ ret' = [NoRet EXCEPT !.ok = res.val]
           /\ panicked' = res.panic
           /\ regs' = IF res.panic THEN regs ELSE [regs EXCEPT ![r] = res.val]
           /\ origin' = IF res.panic THEN origin ELSE [origin EXCEPT ![r] = None]
    /\ adds' = adds + 1
    /\ UNCHANGED <<overflow_checks, featVars>>

\* r.n()
GetN(r) ==
    /\ ~panicked
    /\ regs[r] # None
    /\ call' = [NoCall EXCEPT !.op = "n", !.reg = r, !.lhs = regs[r]]
    /\ ret' = [NoRet EXCEPT !.num = Some(n(Unwrap(regs[r])))]
    /\ UNCHANGED <<fracVars, featVars>>

\* r.m()
GetM(r) ==
    /\ ~panicked
    /\ regs[r] # None
    /\ call' = [NoCall EXCEPT !.op = "m", !.reg = r, !.lhs = regs[r]]
    /\ ret' = [NoRet EXCEPT !.num = Some(m(Unwrap(regs[r])))]
    /\ UNCHANGED <<fracVars, featVars>>

\* r1 == r2, and the comparison the other way round
Eq(r1, r2) ==
    /\ ~panicked
    /\ regs[r1] # None /\ regs[r2] # None
    /\ call' = [NoCall EXCEPT !.op = "eq", !.reg = r1,
                              !.lhs = regs[r1], !.rhs = regs[r2]]
    /\ ret' = [NoRet EXCEPT !.bool = Some(eq(Unwrap(regs[r1]), Unwrap(regs[r2]))),
                            !.bool2 = Some(eq(Unwrap(regs[r2]), Unwrap(regs[r1])))]
    /\ UNCHANGED <<fracVars, featVars>>

\* ------------------------------------------------- SimplePhenotypicFeature
new(identifier, fraction) == [identifier |-> identifier, fraction |-> fraction]

\* bug: presence decided by the denominator
is_present_by_m(self) == Gt(m(self.fraction), Zero)

\* impl Observable for SimplePhenotypicFeature
is_present(self) == Gt(n(self.fraction), Zero)

\* an override that breaks complementarity: excluded when some investigated
\* item lacks the feature
is_excluded_some_absent(self) == Gt(m(self.fraction), n(self.fraction))

\* Observable::is_excluded, the trait's default
is_excluded(self) == ~is_present(self)

\* ------------------------------------------------------ ObservableFeatures
\* A borrowed element &T is its position in the backing container.
\* bug: the cursor is shared, a new iterator resumes where a live one stands
iter_resume(self) ==
    IF iters[1] # None THEN [pos |-> Unwrap(iters[1]).pos] ELSE [pos |-> 1]

\* self.iter(): a cursor at the first element
iter(self) == [pos |-> 1]

\* .filter(|&t| t.is_present()) / .filter(|&t| t.is_excluded())
filter(it, p) == [pos |-> it.pos, pred |-> p, done |-> FALSE]

Holds(p, t) == IF p = "present" THEN is_present(t) ELSE is_excluded(t)

\* Filter::next: advance the cursor to the next element the predicate accepts
RECURSIVE next(_, _)
next(self, it) ==
    IF it.pos > Len(self)
    THEN [item |-> None, it |-> [it EXCEPT !.done = TRUE]]
    ELSE IF Holds(it.pred, self[it.pos])
         THEN [item |-> Some(it.pos), it |-> [it EXCEPT !.pos = it.pos + 1]]
         ELSE next(self, [it EXCEPT !.pos = it.pos + 1])

\* Iterator::count: consume the iterator, counting the items
RECURSIVE count(_, _)
count(self, it) ==
    LET r == next(self, it)
    IN  IF r.item = None THEN 0 ELSE 1 + count(self, r.it)

slice_present_features(self) == filter(iter(self), "present")
slice_excluded_features(self) == filter(iter(self), "excluded")

array_present_features(self) == filter(iter(self), "present")
array_excluded_features(self) == filter(iter(self), "excluded")

vec_present_features(self) == filter(iter(self), "present")
\* bug: the excluded view filters by is_present
vec_excluded_features_present(self) == filter(iter(self), "present")

vec_excluded_features(self) == filter(iter(self), "excluded")

Kinds == {"slice", "array", "vec"}

present_features(k, self) ==
    CASE k = "slice" -> slice_present_features(self)
      [] k = "array" -> array_present_features(self)
      [] k = "vec" -> vec_present_features(self)

excluded_features(k, self) ==
    CASE k = "slice" -> slice_excluded_features(self)
      [] k = "array" -> array_excluded_features(self)
      [] k = "vec" -> vec_excluded_features(self)

present_feature_count(k, self) == count(self, present_features(k, self))
excluded_feature_count(k, self) == count(self, excluded_features(k, self))

\* ------------------------------------------- client of ObservableFeatures
TermIds == {"HP:0010442", "HP:0001250"}
FeatVals == {Zero, One}
Slots == {1, 2}

FeatIdle ==
    /\ features = <<>>
    /\ iters = [s \in Slots |-> None]
    /\ outs = [s \in Slots |-> <<>>]

\* Append SimplePhenotypicFeature::new(id, Fraction::try_from((a, b)).unwrap())
\* to the container under construction; nothing borrows it yet.
Push(id, a, b) ==
    /\ Len(features) < MaxLen
    /\ \A s \in Slots : iters[s] = None
    /\ LET res == try_from(<<a, b>>)
       IN  /\ res.ok # None
           /\ features' = Append(features, new(id, Unwrap(res.ok)))
    /\ call' = NoCall
    /\ ret' = NoRet
    /\ UNCHANGED <<fracVars, iters, outs>>

\* let it_s = features.present_features(), through the impl for shape k;
\* the iterators are taken in the order it_1, it_2
PresentFeatures(k, s) ==
    /\ iters[s] = None
    /\ s > 1 => iters[s - 1] # None
    /\ iters' = [iters EXCEPT ![s] = Some(present_features(k, features))]
    /\ outs' = [outs EXCEPT ![s] = <<>>]
    /\ call' = NoCall
    /\ ret' = NoRet
    /\ UNCHANGED <<fracVars, features>>

\* let it_s = features.excluded_features(), through the impl for shape k
ExcludedFeatures(k, s) ==
    /\ iters[s] = None
    /\ s > 1 => iters[s - 1] # None
    /\ iters' = [iters EXCEPT ![s] = Some(excluded_features(k, features))]
    /\ outs' = [outs EXCEPT ![s] = <<>>]
    /\ call' = NoCall
    /\ ret' = NoRet
    /\ UNCHANGED <<fracVars, features>>

\* it_s.next()
IterNext(s) ==
    /\ iters[s] # None
    /\ ~Unwrap(iters[s]).done
    /\ LET r == next(features, Unwrap(iters[s]))
       IN  /\ iters' = [iters EXCEPT ![s] = Some(r.it)]
           /\ outs' = [outs EXCEPT ![s] =
                           IF r.item = None THEN @ ELSE Append(@, Unwrap(r.item))]
    /\ call' = NoCall
    /\ ret' = NoRet
    /\ UNCHANGED <<fracVars, features>>

\* both iterators go out of scope
DropIters ==
    /\ \E s \in Slots : iters[s] # None
    /\ iters' = [s \in Slots |-> None]
    /\ outs' = [s \in Slots |-> <<>>]
    /\ call' = NoCall
    /\ ret' = NoRet
    /\ UNCHANGED <<fracVars, features>>

\* (features.present_feature_count(), features.excluded_feature_count()),
\* through the impl for shape k
Counts(k) ==
    /\ call' = [NoCall EXCEPT !.op = "counts"]
    /\ ret' = [NoRet EXCEPT !.cnt = Some(<<present_feature_count(k, features),
                                           excluded_feature_count(k, features)>>)]
    /\ UNCHANGED <<fracVars, featVars>>

\* (features[i].is_present(), features[i].is_excluded())
Observe(i) ==
    /\ i \in 1..Len(features)
    /\ call' = [NoCall EXCEPT !.op = "observe", !.idx = i]
    /\ ret' = [NoRet EXCEPT !.bool = Some(is_present(features[i])),
                            !.bool2 = Some(is_excluded(features[i]))]
    /\ UNCHANGED <<fracVars, featVars>>

Init ==
    /\ FractionInit
    /\ FeatIdle

Next ==
    \/ \E r \in Regs, a \in Vals, b \in Vals : TryFrom(r, a, b)
    \/ \E r \in Regs : Add(r)
    \/ \E r \in Regs : GetN(r)
    \/ \E r \in Regs : GetM(r)
    \/ \E r1 \in Regs, r2 \in Regs : Eq(r1, r2)

Spec == Init /\ [][Next]_vars

\* A container of features, read through the impls for the three container
\* shapes (slice, array, Vec), which all see it as the same sequence of
\* elements. No fraction is added here, so the build's overflow setting
\* plays no part.
FeatInit ==
    /\ overflow_checks = FALSE
    /\ regs = [r \in Regs |-> None]
    /\ origin = [r \in Regs |-> None]
    /\ adds = 0
    /\ call = NoCall
    /\ ret = NoRet
    /\ panicked = FALSE
    /\ FeatIdle

FeatNext ==
    \/ \E id \in TermIds, a \in FeatVals, b \in FeatVals : Push(id, a, b)
    \/ \E k \in Kinds, s \in Slots : PresentFeatures(k, s)
    \/ \E k \in Kinds, s \in Slots : ExcludedFeatures(k, s)
    \/ \E s \in Slots : IterNext(s)
    \/ DropIters
    \/ \E k \in Kinds : Counts(k)
    \/ \E i \in 1..MaxLen : Observe(i)

FeatSpec == FeatInit /\ [][FeatNext]_vars

\* ------------------------------------------------------------- properties
Range(q) == {q[i] : i \in 1..Len(q)}
Increasing(q) == \A i \in 1..Len(q), j \in 1..Len(q) : i < j => q[i] < q[j]
IsPrefix(p, q) == Len(p) <= Len(q) /\ \A i \in 1..Len(p) : p[i] = q[i]
Done(s, p) == iters[s] # None /\ Unwrap(iters[s]).done /\ Unwrap(iters[s]).pred = p
WellFormed(f) == Le(f.n, f.m)

\* C1: for every pair (a, b) of u32 with a <= b, a = b = 0 included,
\* try_from((a, b)) succeeds, and on the resulting fraction n() returns a and
\* m() returns b.
C1_TryFromAccepts ==
    /\ call.op = "try_from" =>
          LET a == Unwrap(call.pair)[1]
              b == Unwrap(call.pair)[2]
          IN  Le(a, b) =>
                 /\ ret.ok = Some([n |-> a, m |-> b])
                 /\ ret.err = None
                 /\ regs[call.reg] = ret.ok
    /\ call.op = "n" /\ origin[call.reg] # None =>
          ret.num = Some(Unwrap(origin[call.reg])[1])
    /\ call.op = "m" /\ origin[call.reg] # None =>
          ret.num = Some(Unwrap(origin[call.reg])[2])

C1_Witness ==
    /\ call.op = "m"
    /\ origin[call.reg] = Some(<<Zero, Zero>>)
    /\ ret.num = Some(Zero)

\* C2: for every pair (a, b) with a > b, try_from((a, b)) fails: it returns
\* the one fixed error message and produces no Fraction.
C2_TryFromRejects ==
    call.op = "try_from" =>
       LET a == Unwrap(call.pair)[1]
           b == Unwrap(call.pair)[2]
       IN  Gt(a, b) =>
              /\ ret.ok = None
              /\ ret.err = Some("Numerator must be less than or equal to denominator!")

C2_Witness ==
    /\ call.op = "try_from"
    /\ call.pair = Some(<<U32Max, One>>)
    /\ ret.ok = None
    /\ ret.err # None

\* C3: every fraction reachable by try_from followed by additions has
\* numerator <= denominator.
C3_SumsStayValid ==
    \A r \in Regs : \A f \in regs[r] : Le(f.n, f.m)

\* C4: the sum of two valid fractions (n1, m1) and (n2, m2) is a fraction
\* whose numerator is exactly n1 + n2 and whose denominator is exactly
\* m1 + m2.
C4_AddExact ==
    call.op = "add" =>
       LET f1 == Unwrap(call.lhs)
           f2 == Unwrap(call.rhs)
       IN  WellFormed(f1) /\ WellFormed(f2) =>
              \E f \in ret.ok :
                 /\ Wide(f.n) = WideSum(f1.n, f2.n)
                 /\ Wide(f.m) = WideSum(f1.m, f2.m)

\* C5: every operation but try_from is total: the sum of two well-formed
\* fractions always completes and returns a Fraction, never aborts, and the
\* accessors never fail.
C5_AddTotal ==
    /\ call.op = "add" /\ WellFormed(Unwrap(call.lhs)) /\ WellFormed(Unwrap(call.rhs)) =>
          ~panicked /\ ret.ok # None
    /\ call.op \in {"n", "m"} => ret.num # None

\* C6: for a value that uses the default is_excluded, exactly one of
\* is_present() and is_excluded() is true.
C6_Complementary ==
    call.op = "observe" =>
       \E p \in ret.bool, q \in ret.bool2 : p # q

C6_Witness ==
    /\ call.op = "observe"
    /\ features[call.idx].fraction = [n |-> Zero, m |-> Zero]
    /\ ret.bool = Some(FALSE)
    /\ ret.bool2 = Some(TRUE)

\* C7: for a container C read as a Vec, an array or a slice, the present
\* and the excluded count add up to the length of C, every element of C is
\* in exactly one of present_features() and excluded_features(), and each
\* of the two lists its elements in the order of C.
C7_Partition ==
    /\ call.op = "counts" =>
          \E c \in ret.cnt : c[1] + c[2] = Len(features)
    /\ \A s \in Slots, t \in Slots :
          Done(s, "present") /\ Done(t, "excluded") =>
             /\ Range(outs[s]) \cap Range(outs[t]) = {}
             /\ Range(outs[s]) \cup Range(outs[t]) = 1..Len(features)
             /\ Increasing(outs[s])
             /\ Increasing(outs[t])

C7_Witness ==
    /\ Len(features) = 3
    /\ Done(1, "present") /\ Done(2, "excluded")
    /\ outs[1] = <<1, 3>>
    /\ outs[2] = <<2>>

\* C8: a SimplePhenotypicFeature is present if and only if the numerator of
\* its fraction is greater than 0, and excluded otherwise, whatever its
\* identifier and denominator.
C8_PresentIffNumerator ==
    call.op = "observe" =>
       LET num == features[call.idx].fraction.n
       IN  /\ ret.bool = Some(num # Zero)
           /\ ret.bool2 = Some(num = Zero)

C8_Witness ==
    /\ call.op = "observe"
    /\ features[call.idx].fraction = [n |-> Zero, m |-> One]
    /\ \E i \in 1..Len(features) :
          /\ features[i].fraction = [n |-> One, m |-> One]
          /\ features[i].identifier = features[call.idx].identifier
    /\ ret.bool = Some(FALSE)
    /\ ret.bool2 = Some(TRUE)

\* C9: two calls of present_features() (or of excluded_features()) on the
\* same container yield the same elements in the same order, however the
\* two iterators are consumed, and the calls and the counts leave the
\* container as it is.
C9_Restartable ==
    /\ [](\A s \in Slots, t \in Slots :
            iters[s] # None /\ iters[t] # None
            /\ Unwrap(iters[s]).pred = Unwrap(iters[t]).pred =>
               /\ IsPrefix(outs[s], outs[t]) \/ IsPrefix(outs[t], outs[s])
               /\ Unwrap(iters[s]).done /\ Unwrap(iters[t]).done => outs[s] = outs[t])
    /\ [][(iters' # iters \/ call'.op = "counts") => features' = features]_vars

C9_Witness ==
    /\ Done(1, "excluded") /\ Done(2, "excluded")
    /\ outs[1] = <<1, 3>>
    /\ outs[2] = <<1, 3>>

\* C10: two fractions are equal if and only if their numerators are equal
\* and their denominators are equal, however each was produced; equality is
\* reflexive and symmetric.
C10_StructuralEq ==
    call.op = "eq" =>
       LET x == Unwrap(call.lhs)
           y == Unwrap(call.rhs)
       IN  /\ ret.bool = Some(x.n = y.n /\ x.m = y.m)
           /\ ret.bool2 = ret.bool
           /\ x = y => ret.bool = Some(TRUE)

C10_Witness ==
    /\ call.op = "eq"
    /\ origin["a"] = None
    /\ origin["b"] = Some(<<One, U32Max>>)
    /\ call.lhs = regs["a"] /\ call.rhs = regs["b"]
    /\ ret.bool = Some(TRUE)

====
